---- MODULE Spec2Model ----
(***************************************************************************)
(* A model of the allocator family of djkoloski/rel (Slab control, the     *)
(* Control default methods, the External and Prefix allocators) and of the *)
(* RelShortString inline/spilled string built on top of them.              *)
(*                                                                         *)
(* Memory is a sparse map from absolute addresses to bytes; an address     *)
(* that was never written reads as Uninit.  usize arithmetic keeps a       *)
(* (scaled-down) width of WordBits bits: a subtraction that underflows     *)
(* panics in a build with overflow checks and wraps in a build without.    *)
(***************************************************************************)
EXTENDS Integers, Sequences, FiniteSets, TLC

(***************************************************************************)
(* Bounds of the model.                                                    *)
(***************************************************************************)
\* width of the modelled usize, in bits
WordBits == 16
\* number of allocator operations explored after construction
MaxOps == 3
\* longest source string handed to the RelShortString emplacer
MaxStrLen == 18

(***************************************************************************)
(* Program constants.                                                      *)
(***************************************************************************)
\* External::MIN_ALIGN
MIN_ALIGN == 16
\* PrefixHeader::LAYOUT.size(): {cap: usize, control: Slab} under align(16)
HeaderSize == 16
\* PrefixHeader::LAYOUT.align(): #[repr(C, align(16))]
HeaderAlign == 16

Modulus == 2 ^ WordBits

Uninit == -1

Builds == {"debug", "release"}

\* Segment base addresses: 32 is 32-aligned, 40 is only 8-aligned, 48 is
\* only 16-aligned.
Bases == {32, 40, 48}
\* Segment lengths: 8 is smaller than the prefix header, 16 holds exactly
\* the header, 40 holds header and a few blocks.
SegLens == {8, 16, 40}

\* Layouts requested from the allocator: (size, align), align a power of two.
Layouts ==
    { [size |-> 1, align |-> 1],
      [size |-> 8, align |-> 8],
      [size |-> 4, align |-> 32] }

\* Seeds of the byte patterns a caller writes into its blocks.
Seeds == {1, 2}

VARIABLES
    build,      \* "debug": overflow checks on; "release": wrapping arithmetic
    pc,         \* "new", "ready", "failed", "panicked", "faulted"
    kind,       \* "None", "External", "Prefix"
    base,       \* base address of the segment the allocator was built over
    segLen,     \* length of that segment
    hdrCap,     \* PrefixHeader.cap as stored in the segment (Uninit if unwritten)
    len,        \* Slab.len
    mem,        \* sparse memory: address -> byte
    blocks,     \* blocks returned by successful calls, in order
    last,       \* the last call and what it returned
    nops,       \* number of operations performed
    str,        \* the RelShortString slot: its fields and their addresses
    source,     \* the source string handed to the emplacer
    rel,        \* the emplaced RelPrefix: its slot and its header reference
    thr,        \* callers of Slab::allocate that share one Slab unserialized
    tok,        \* runtime tokens: the registry flag and the value of each
    cell        \* the leased static slot and the StaticVal borrowing it

vars == <<build, pc, kind, base, segLen, hdrCap, len, mem, blocks, last, nops,
          str, source, rel, thr, tok, cell>>

allocVars == <<build, pc, kind, base, segLen, hdrCap, len, mem, blocks, last,
               nops>>

strVars == <<str, source>>

\* State of the scenarios beyond the allocator and the string.
extVars == <<rel, thr, tok, cell>>

(***************************************************************************)
(* Memory helpers.                                                         *)
(***************************************************************************)
Read(m, a) == IF a \in DOMAIN m THEN m[a] ELSE Uninit

Range(ptr, n) == ptr .. (ptr + n - 1)

\* The n bytes at ptr, as a sequence.
Bytes(m, ptr, n) == [i \in 1..n |-> Read(m, ptr + i - 1)]

\* ptr::write_bytes(dst, b, n)
write_bytes(m, dst, b, n) ==
    [a \in DOMAIN m \cup Range(dst, n) |->
        IF a \in Range(dst, n) THEN b ELSE m[a]]

\* ptr::copy_nonoverlapping(src, dst, n)
copy_nonoverlapping(m, src, dst, n) ==
    [a \in DOMAIN m \cup Range(dst, n) |->
        IF a \in Range(dst, n) THEN Read(m, src + (a - dst)) ELSE m[a]]

\* usize subtraction: panics under overflow checks, wraps otherwise.
CheckedSub(b, x, y) ==
    IF x >= y THEN [panic |-> FALSE, val |-> x - y]
    ELSE [panic |-> (b = "debug"), val |-> x - y + Modulus]

\* usize addition: panics under overflow checks, wraps otherwise.
CheckedAdd(b, x, y) ==
    IF x + y < Modulus THEN [panic |-> FALSE, val |-> x + y]
    ELSE [panic |-> (b = "debug"), val |-> x + y - Modulus]

\* x & (align - 1), align a power of two
MaskLow(x, align) == x % align

\* x & !(align - 1), align a power of two
MaskHigh(x, align) == x - (x % align)

(***************************************************************************)
(* Results of allocator calls.                                             *)
(***************************************************************************)
Ok(ptr, size, newLen, newMem, calls) ==
    [tag |-> "Ok", ptr |-> ptr, size |-> size, len |-> newLen, mem |-> newMem,
     calls |-> calls]

Err(oldLen, oldMem, calls) ==
    [tag |-> "Err", ptr |-> 0, size |-> 0, len |-> oldLen, mem |-> oldMem,
     calls |-> calls]

Panic(oldLen, oldMem, calls) ==
    [tag |-> "Panic", ptr |-> 0, size |-> 0, len |-> oldLen, mem |-> oldMem,
     calls |-> calls]

(***************************************************************************)
(* Slab: a bump allocator whose whole state is the counter len.            *)
(* memory is the segment handed to the control: [ptr, cap].                *)
(***************************************************************************)
Slab_new == 0

Slab_allocate(b, slabLen, m, memory, layout) ==
    IF MaskLow(memory.ptr, layout.align) # 0
    THEN Err(slabLen, m, <<"allocate">>)
    ELSE LET sum       == CheckedAdd(b, slabLen, layout.align - 1)
             start     == MaskHigh(sum.val, layout.align)
             available == CheckedSub(b, memory.cap, start)
             end       == CheckedAdd(b, start, layout.size)
         IN  IF sum.panic \/ available.panic
             THEN Panic(slabLen, m, <<"allocate">>)
             ELSE IF available.val < layout.size
             THEN Err(slabLen, m, <<"allocate">>)
             ELSE IF end.panic
             THEN Panic(slabLen, m, <<"allocate">>)
             ELSE Ok(memory.ptr + start, layout.size, end.val, m,
                     <<"allocate">>)

\* A deallocate that rewinds the counter to the start of the block.
Slab_deallocate_rewind(slabLen, memory, ptr, layout) == ptr - memory.ptr

\* deallocate has an empty body: the counter after the call is the counter
\* before it.
Slab_deallocate(slabLen, memory, ptr, layout) == slabLen

(***************************************************************************)
(* Control: the default methods, which Slab does not override.             *)
(***************************************************************************)
Control_allocate_zeroed(b, slabLen, m, memory, layout) ==
    LET a == Slab_allocate(b, slabLen, m, memory, layout)
    IN  IF a.tag # "Ok" THEN [a EXCEPT !.calls = <<"allocate">>]
        ELSE Ok(a.ptr, a.size, a.len, write_bytes(a.mem, a.ptr, 0, a.size),
                <<"allocate", "write_bytes">>)

Control_grow_in_place(b, slabLen, m, memory, ptr, old_layout, new_layout) ==
    Err(slabLen, m, <<"grow_in_place">>)

Control_shrink_in_place(b, slabLen, m, memory, ptr, old_layout, new_layout) ==
    Err(slabLen, m, <<"shrink_in_place">>)

Control_grow_zeroed_in_place(b, slabLen, m, memory, ptr, old_layout, new_layout) ==
    LET g == Control_grow_in_place(b, slabLen, m, memory, ptr, old_layout,
                                   new_layout)
        calls == <<"grow_zeroed_in_place">> \o g.calls
    IN  IF g.tag # "Ok" THEN [g EXCEPT !.calls = calls]
        ELSE Ok(g.ptr, g.size, g.len,
                write_bytes(g.mem, g.ptr + old_layout.size, 0,
                            new_layout.size - old_layout.size),
                calls \o <<"write_bytes">>)

\* A copy with source and destination exchanged.
Control_grow_copy_reversed(m, ptr, new_ptr, old_layout, new_layout) ==
    copy_nonoverlapping(m, new_ptr, ptr, old_layout.size)

\* The copy step of grow: old_layout.size() bytes from ptr to new_ptr.
Control_grow_copy(m, ptr, new_ptr, old_layout, new_layout) ==
    copy_nonoverlapping(m, ptr, new_ptr, old_layout.size)

Control_grow(b, slabLen, m, memory, ptr, old_layout, new_layout) ==
    LET inplace == Control_grow_in_place(b, slabLen, m, memory, ptr,
                                         old_layout, new_layout)
    IN  IF inplace.tag = "Ok" THEN inplace
        ELSE
        LET a   == Slab_allocate(b, slabLen, m, memory, new_layout)
            pre == inplace.calls \o a.calls
        IN  IF a.tag # "Ok" THEN [a EXCEPT !.calls = pre]
            ELSE
            LET m2 == Control_grow_copy(a.mem, ptr, a.ptr, old_layout, new_layout)
                l2 == Slab_deallocate(a.len, memory, ptr, old_layout)
            IN  Ok(a.ptr, a.size, l2, m2,
                   pre \o <<"copy_nonoverlapping", "deallocate">>)

\* A zero-fill that starts at the beginning of the new block.
Control_grow_zeroed_fill_from_start(m, new_ptr, old_layout, new_layout) ==
    write_bytes(m, new_ptr, 0, new_layout.size - old_layout.size)

\* The zero-fill step of grow_zeroed: new size - old size zero bytes right
\* after the old_layout.size() copied bytes.
Control_grow_zeroed_fill(m, new_ptr, old_layout, new_layout) ==
    write_bytes(m, new_ptr + old_layout.size, 0,
                new_layout.size - old_layout.size)

Control_grow_zeroed(b, slabLen, m, memory, ptr, old_layout, new_layout) ==
    LET inplace == Control_grow_zeroed_in_place(b, slabLen, m, memory, ptr,
                                                old_layout, new_layout)
    IN  IF inplace.tag = "Ok" THEN inplace
        ELSE
        LET a   == Slab_allocate(b, slabLen, m, memory, new_layout)
            pre == inplace.calls \o a.calls
        IN  IF a.tag # "Ok" THEN [a EXCEPT !.calls = pre]
            ELSE
            LET m2 == copy_nonoverlapping(a.mem, ptr, a.ptr, old_layout.size)
                m3 == Control_grow_zeroed_fill(m2, a.ptr, old_layout, new_layout)
                l2 == Slab_deallocate(a.len, memory, ptr, old_layout)
            IN  Ok(a.ptr, a.size, l2, m3,
                   pre \o <<"copy_nonoverlapping", "write_bytes",
                            "deallocate">>)

\* A copy of old_layout.size() bytes, more than the new block holds.
Control_shrink_copy_old_size(m, ptr, new_ptr, old_layout, new_layout) ==
    copy_nonoverlapping(m, ptr, new_ptr, old_layout.size)

\* The copy step of shrink: new_layout.size() bytes from ptr to new_ptr.
Control_shrink_copy(m, ptr, new_ptr, old_layout, new_layout) ==
    copy_nonoverlapping(m, ptr, new_ptr, new_layout.size)

Control_shrink(b, slabLen, m, memory, ptr, old_layout, new_layout) ==
    LET inplace == Control_shrink_in_place(b, slabLen, m, memory, ptr,
                                           old_layout, new_layout)
    IN  IF inplace.tag = "Ok" THEN inplace
        ELSE
        LET a   == Slab_allocate(b, slabLen, m, memory, new_layout)
            pre == inplace.calls \o a.calls
        IN  IF a.tag # "Ok" THEN [a EXCEPT !.calls = pre]
            ELSE
            LET m2 == Control_shrink_copy(a.mem, ptr, a.ptr, old_layout, new_layout)
                l2 == Slab_deallocate(a.len, memory, ptr, old_layout)
            IN  Ok(a.ptr, a.size, l2, m2,
                   pre \o <<"copy_nonoverlapping", "deallocate">>)

(***************************************************************************)
(* External and Prefix: the segment each hands to its control.             *)
(***************************************************************************)
\* A memory range that leaves out a header-sized prefix of the slot.
External_memory_carved(segBase, n) ==
    [ptr |-> segBase + HeaderSize, cap |-> n - HeaderSize]

\* External::memory: the whole supplied slot.
External_memory(segBase, n) == [ptr |-> segBase, cap |-> n]

\* PrefixHeader::memory: starts right after the header, cap bytes long,
\* cap being the header's stored cap field.
PrefixHeader_memory(segBase, cap) == [ptr |-> segBase + HeaderSize, cap |-> cap]

\* A split that checks the length of the slot but not its alignment.
PrefixHeader_split_prefix_unaligned(segBase, n) ==
    IF n < HeaderSize
    THEN [tag |-> "Err", suffix |-> [ptr |-> 0, cap |-> 0]]
    ELSE [tag |-> "Ok",
          suffix |-> [ptr |-> segBase + HeaderSize, cap |-> n - HeaderSize]]

\* PrefixHeader::split_prefix: Err, or the suffix slot after the header.
PrefixHeader_split_prefix(segBase, n) ==
    IF n < HeaderSize \/ MaskLow(segBase, HeaderAlign) # 0
    THEN [tag |-> "Err", suffix |-> [ptr |-> 0, cap |-> 0]]
    ELSE [tag |-> "Ok",
          suffix |-> [ptr |-> segBase + HeaderSize, cap |-> n - HeaderSize]]

\* The value Prefix::try_new_in writes to the header's cap field.
Prefix_try_new_in_cap(n) == n

\* self.memory() of the constructed allocator.
Memory ==
    IF kind = "External" THEN External_memory(base, segLen)
    ELSE PrefixHeader_memory(base, hdrCap)

(***************************************************************************)
(* State of the allocator and the record of its last call.                 *)
(***************************************************************************)
NoBlock == [ptr |-> 0, size |-> 0, align |-> 1]

NoLayout == [size |-> 0, align |-> 1]

NoMemory == [ptr |-> 0, cap |-> 0]

NoLast ==
    [op |-> "none", res |-> "none", ptr |-> 0, size |-> 0,
     layout |-> NoLayout, old |-> NoBlock, oldBytes |-> <<>>,
     preLen |-> 0, preMem |-> <<>>, preCap |-> 0, preInline |-> TRUE,
     calls |-> <<>>, memory |-> NoMemory, via |-> <<>>]

LayoutOf(blk) == [size |-> blk.size, align |-> blk.align]

\* A byte range that is not wholly inside the segment.
OutOfSegment(ptr, size) ==
    size > 0 /\ (ptr < base \/ ptr + size > base + segLen)

\* What an access to the given ranges can do: inside the segment it lands;
\* outside it is an out-of-bounds access, which either lands in foreign
\* memory or faults.
Outcomes(touched) ==
    IF \E t \in touched : OutOfSegment(t.ptr, t.size)
    THEN {"lands", "fault"}
    ELSE {"lands"}

AllocInit ==
    /\ build \in Builds
    /\ pc = "new"
    /\ kind = "None"
    /\ base = 0
    /\ segLen = 0
    /\ hdrCap = Uninit
    /\ len = 0
    /\ mem = << >>
    /\ blocks = << >>
    /\ last = NoLast
    /\ nops = 0

(***************************************************************************)
(* Construction.                                                           *)
(***************************************************************************)
\* External::new(bytes), bytes drawn from the given bases and lengths
External_new_over(Bs, Ns) ==
    /\ pc = "new"
    /\ \E b \in Bs, n \in Ns :
        /\ kind' = "External"
        /\ base' = b
        /\ segLen' = n
        /\ IF MaskLow(b, MIN_ALIGN) # 0
           THEN /\ pc' = "failed"
                /\ last' = [NoLast EXCEPT !.op = "new", !.res = "Err"]
                /\ len' = len
           ELSE /\ pc' = "ready"
                /\ last' = [NoLast EXCEPT !.op = "new", !.res = "Ok",
                                          !.memory = External_memory(b, n)]
                /\ len' = Slab_new
    /\ UNCHANGED <<build, hdrCap, mem, blocks, nops, str, source, extVars>>

\* Prefix::try_new_in(bytes), bytes drawn from the given bases and lengths
Prefix_try_new_in_over(Bs, Ns) ==
    /\ pc = "new"
    /\ \E b \in Bs, n \in Ns :
        LET split == PrefixHeader_split_prefix(b, n)
        IN  /\ kind' = "Prefix"
            /\ base' = b
            /\ segLen' = n
            /\ IF split.tag = "Err"
               THEN /\ pc' = "failed"
                    /\ last' = [NoLast EXCEPT !.op = "new", !.res = "Err"]
                    /\ UNCHANGED <<hdrCap, len>>
               ELSE /\ pc' = "ready"
                    /\ last' = [NoLast EXCEPT !.op = "new", !.res = "Ok",
                                              !.memory = split.suffix]
                    /\ hdrCap' = Prefix_try_new_in_cap(n)
                    /\ len' = Slab_new
    /\ UNCHANGED <<build, mem, blocks, nops, str, source, extVars>>

\* A reattachment that runs the initialization of try_new_in again.
Prefix_try_from_bytes_reinit(segBase, n, header) ==
    LET split == PrefixHeader_split_prefix(segBase, n)
    IN  IF split.tag = "Err" THEN [tag |-> "Err", header |-> header]
        ELSE [tag |-> "Ok",
              header |-> [cap |-> Prefix_try_new_in_cap(n),
                          control |-> Slab_new]]

\* Prefix::try_from_bytes: splits the segment and refers to the header that
\* is already there; header is the header's content {cap, control} before
\* and after the call.
Prefix_try_from_bytes_over(segBase, n, header) ==
    LET split == PrefixHeader_split_prefix(segBase, n)
    IN  IF split.tag = "Err" THEN [tag |-> "Err", header |-> header]
        ELSE [tag |-> "Ok", header |-> header]

\* Prefix::try_from_bytes(bytes) on the segment of a Prefix allocator built
\* by try_new_in; the allocator it returns is the one used from then on.
Prefix_try_from_bytes ==
    /\ pc = "ready"
    /\ nops < MaxOps
    /\ kind = "Prefix"
    /\ LET r == Prefix_try_from_bytes_over(base, segLen,
                                           [cap |-> hdrCap, control |-> len])
       IN  /\ hdrCap' = r.header.cap
           /\ len' = r.header.control
           /\ pc' = IF r.tag = "Ok" THEN "ready" ELSE "failed"
           /\ last' = [NoLast EXCEPT !.op = "try_from_bytes", !.res = r.tag,
                                     !.preLen = len, !.preMem = mem,
                                     !.memory = Memory]
    /\ nops' = nops + 1
    /\ UNCHANGED <<build, kind, base, segLen, mem, blocks, str, source, extVars>>

(***************************************************************************)
(* Allocator operations.  Each delegates to the control with self.memory().*)
(***************************************************************************)
\* The state after a call that returned r, made through the handles via
\* (outermost first, none for a call on the allocator itself) with the
\* memory range and the Slab counter the call was given; old is the block
\* handed in (or NoBlock), released says whether a successful call gives the
\* old block up.
FinishVia(op, via, memory, slabLen, layout, old, released, r, outcome) ==
    /\ nops' = nops + 1
    /\ last' = [op |-> op,
                res |-> IF outcome = "fault" THEN "Fault" ELSE r.tag,
                ptr |-> r.ptr, size |-> r.size, layout |-> layout,
                old |-> old, oldBytes |-> Bytes(mem, old.ptr, old.size),
                preLen |-> slabLen, preMem |-> mem, preCap |-> 0,
                preInline |-> TRUE, calls |-> r.calls, memory |-> memory,
                via |-> via]
    /\ IF outcome = "fault"
       THEN pc' = "faulted" /\ UNCHANGED <<len, mem, blocks>>
       ELSE IF r.tag = "Panic"
       THEN pc' = "panicked" /\ UNCHANGED <<len, mem, blocks>>
       ELSE /\ pc' = pc
            /\ len' = r.len
            /\ mem' = r.mem
            /\ blocks' =
                LET kept == [i \in 1..Len(blocks) |->
                                IF released /\ r.tag = "Ok"
                                   /\ blocks[i].ptr = old.ptr /\ blocks[i].live
                                THEN [blocks[i] EXCEPT !.live = FALSE]
                                ELSE blocks[i]]
                IN  IF r.tag = "Ok" /\ op # "deallocate"
                    THEN Append(kept, [ptr |-> r.ptr, size |-> r.size,
                                       align |-> layout.align, live |-> TRUE,
                                       via |-> via])
                    ELSE kept
    /\ UNCHANGED <<build, kind, base, segLen, hdrCap>>

\* The state after a call made on the allocator itself.
Finish(op, layout, old, released, r, outcome) ==
    FinishVia(op, << >>, Memory, len, layout, old, released, r, outcome)

Ready == pc = "ready" /\ nops < MaxOps

LiveBlocks == {i \in 1..Len(blocks) : blocks[i].live}

BlockOf(i) == [ptr |-> blocks[i].ptr, size |-> blocks[i].size,
               align |-> blocks[i].align]

Allocate ==
    /\ Ready
    /\ UNCHANGED <<strVars, extVars>>
    /\ \E layout \in Layouts :
        LET r == Slab_allocate(build, len, mem, Memory, layout)
        IN  Finish("allocate", layout, NoBlock, FALSE, r, "lands")

AllocateZeroed ==
    /\ Ready
    /\ UNCHANGED <<strVars, extVars>>
    /\ \E layout \in Layouts :
        LET r == Control_allocate_zeroed(build, len, mem, Memory, layout)
        IN  \E outcome \in Outcomes({[ptr |-> r.ptr, size |-> r.size]}) :
                Finish("allocate_zeroed", layout, NoBlock, FALSE, r, outcome)

Deallocate ==
    /\ Ready
    /\ UNCHANGED <<strVars, extVars>>
    /\ \E i \in LiveBlocks :
        LET l2 == Slab_deallocate(len, Memory, blocks[i].ptr, LayoutOf(blocks[i]))
            r  == Ok(0, 0, l2, mem, <<"deallocate">>)
        IN  Finish("deallocate", LayoutOf(blocks[i]), BlockOf(i), TRUE, r, "lands")

Grow ==
    /\ Ready
    /\ UNCHANGED <<strVars, extVars>>
    /\ \E i \in LiveBlocks, layout \in Layouts :
        /\ layout.size >= blocks[i].size
        /\ LET r == Control_grow(build, len, mem, Memory, blocks[i].ptr,
                                 LayoutOf(blocks[i]), layout)
           IN  \E outcome \in Outcomes({[ptr |-> r.ptr, size |-> r.size],
                                        [ptr |-> blocks[i].ptr,
                                         size |-> IF r.tag = "Ok" THEN blocks[i].size ELSE 0]}) :
                Finish("grow", layout, BlockOf(i), TRUE, r, outcome)

GrowZeroed ==
    /\ Ready
    /\ UNCHANGED <<strVars, extVars>>
    /\ \E i \in LiveBlocks, layout \in Layouts :
        /\ layout.size >= blocks[i].size
        /\ LET r == Control_grow_zeroed(build, len, mem, Memory, blocks[i].ptr,
                                        LayoutOf(blocks[i]), layout)
           IN  \E outcome \in Outcomes({[ptr |-> r.ptr, size |-> r.size],
                                        [ptr |-> blocks[i].ptr,
                                         size |-> IF r.tag = "Ok" THEN blocks[i].size ELSE 0]}) :
                Finish("grow_zeroed", layout, BlockOf(i), TRUE, r, outcome)

Shrink ==
    /\ Ready
    /\ UNCHANGED <<strVars, extVars>>
    /\ \E i \in LiveBlocks, layout \in Layouts :
        /\ layout.size <= blocks[i].size
        /\ LET r == Control_shrink(build, len, mem, Memory, blocks[i].ptr,
                                   LayoutOf(blocks[i]), layout)
           IN  \E outcome \in Outcomes({[ptr |-> r.ptr, size |-> r.size],
                                        [ptr |-> blocks[i].ptr,
                                         size |-> IF r.tag = "Ok" THEN layout.size ELSE 0]}) :
                Finish("shrink", layout, BlockOf(i), TRUE, r, outcome)

\* The byte a caller writes at offset i of a block it fills with a seed.
Pattern(seed, i) == 16 * seed + i

\* The owner of a live block writes data into it.
Fill ==
    /\ Ready
    /\ UNCHANGED <<strVars, extVars>>
    /\ \E i \in LiveBlocks, seed \in Seeds :
        LET blk == blocks[i]
            m2  == [a \in DOMAIN mem \cup Range(blk.ptr, blk.size) |->
                        IF a \in Range(blk.ptr, blk.size)
                        THEN Pattern(seed, a - blk.ptr)
                        ELSE mem[a]]
            r   == [tag |-> "Written", ptr |-> blk.ptr, size |-> blk.size,
                    len |-> len, mem |-> m2, calls |-> << >>]
        IN  \E outcome \in Outcomes({[ptr |-> blk.ptr, size |-> blk.size]}) :
                Finish("fill", LayoutOf(blk), BlockOf(i), FALSE, r, outcome)

External_new == External_new_over(Bases, SegLens)

Prefix_try_new_in == Prefix_try_new_in_over(Bases, SegLens)

Next ==
    \/ External_new
    \/ Prefix_try_new_in
    \/ Prefix_try_from_bytes
    \/ Allocate
    \/ AllocateZeroed
    \/ Deallocate
    \/ Grow
    \/ GrowZeroed
    \/ Shrink
    \/ Fill

NoStr ==
    [state |-> "none", addr |-> 0, repr |-> << >>, cap |-> 0,
     alloc |-> Uninit,
     writes |-> [cap |-> 0, inline |-> 0, ptr |-> 0, len |-> 0, alloc |-> 0]]

\* No RelPrefix has been emplaced.
NoRel == [state |-> "none", addr |-> 0, header |-> << >>]

\* The callers that may run Slab::allocate on one Slab at the same time.
Threads == {1, 2}

\* No caller is inside allocate and no call has been made: at is where each
\* caller stands (raced: another caller was inside allocate at some time
\* during this call), log the completed calls in the order they completed.
NoThreads ==
    [at |-> [t \in Threads |->
                [pc |-> "idle", layout |-> NoLayout, read |-> 0,
                 raced |-> FALSE]],
     log |-> << >>]

\* The token types declared with runtime_token!.
TokenTypes == {"Foo", "Quarter"}

\* What try_acquire last returned for a token type, and what was true of the
\* type when it was called.
NoTry == [res |-> "none", live |-> FALSE, forgotten |-> FALSE, outs |-> 0]

\* No token has been acquired.  held is the flag of the token type; live: a
\* token value exists; forgotten: a token value was consumed by a
\* split_unique function; outs: the split outputs that exist.
NoTokens ==
    [T \in TokenTypes |->
        [held |-> FALSE, live |-> FALSE, forgotten |-> FALSE, outs |-> 0,
         tried |-> NoTry]]

\* The handles through which the static value is reached.
Handles == {"StaticVal", "StaticMut", "StaticRef"}

\* The places a value can be stored at: the static variable VALUE that
\* lease_static! declares, and one place per handle.
StaticLocs == {"VALUE"} \cup Handles

\* The static slot of lease_static! is uninitialized and nothing leases it.
NoCell ==
    [state |-> "none", statics |-> [l \in StaticLocs |-> Uninit],
     init |-> Uninit, expect |-> Uninit, read |-> Uninit, want |-> Uninit,
     by |-> "none", slots |-> {}, muts |-> 0]

Init ==
    /\ AllocInit
    /\ str = NoStr
    /\ source = << >>
    /\ rel = NoRel
    /\ thr = NoThreads
    /\ tok = NoTokens
    /\ cell = NoCell

Spec == Init /\ [][Next]_vars

(***************************************************************************)
(* Properties of the allocators.                                           *)
(***************************************************************************)
\* The least multiple of a that is >= x.
RoundUp(x, a) == ((x + a - 1) \div a) * a

\* The request fits the remaining capacity of the segment given to the Slab.
Fits(slabLen, memory, layout) ==
    RoundUp(slabLen, layout.align) + layout.size <= memory.cap

Disjoint(b1, b2) ==
    b1.ptr + b1.size <= b2.ptr \/ b2.ptr + b2.size <= b1.ptr

\* C1: every block returned by a successful call lies wholly inside the
\* segment the allocator was constructed over, and any two returned blocks
\* are disjoint byte ranges.
C1_BlocksInsideSegmentAndDisjoint ==
    /\ \A i \in 1..Len(blocks) :
        /\ base <= blocks[i].ptr
        /\ blocks[i].ptr + blocks[i].size <= base + segLen
    /\ \A i, j \in 1..Len(blocks) :
        i < j => Disjoint(blocks[i], blocks[j])

\* C5: an allocate request (s, a) on a Slab succeeds if and only if
\* roundup(len, a) + s <= cap, len being the counter before the call; no
\* other condition makes it fail.
C5_AllocateSucceedsIffFits ==
    last.op = "allocate" =>
        (last.res = "Ok" <=> Fits(last.preLen, last.memory, last.layout))

\* C6: an allocate request that does not fit the remaining capacity returns
\* the error value AllocError; it neither panics nor succeeds by arithmetic
\* wrap-around.
C6_NoFitReturnsAllocError ==
    (last.op = "allocate" /\ ~Fits(last.preLen, last.memory, last.layout)) =>
        (last.res = "Err" /\ pc = "ready")

\* C7: the memory range a Prefix allocator passes to its control on every
\* operation is exactly the bytes after the header: it starts at segment
\* base + header size and is segment length - header size long.
C7_PrefixMemoryIsSuffix ==
    (kind = "Prefix" /\ pc # "new" /\ last.res # "none" /\ last.op # "new"
     /\ last.op # "fill") =>
        last.memory = [ptr |-> base + HeaderSize, cap |-> segLen - HeaderSize]

\* C8: a successful default grow is allocate(new_layout), then a copy of the
\* old block's bytes, then deallocate(old block), in that order: the block
\* returned is the one allocate(new_layout) gives from the state before the
\* call, and its first old-size bytes equal the old block's content before
\* the call.
C8_GrowIsAllocateCopyDeallocate ==
    (last.op = "grow" /\ last.res = "Ok") =>
        LET a == Slab_allocate(build, last.preLen, mem, last.memory, last.layout)
        IN  /\ a.tag = "Ok"
            /\ last.ptr = a.ptr
            /\ last.size = last.layout.size
            /\ len = a.len
            /\ Bytes(mem, last.ptr, last.old.size) = last.oldBytes
            /\ last.calls = <<"grow_in_place", "allocate",
                              "copy_nonoverlapping", "deallocate">>

\* C8 witness: a grow succeeded on a block whose bytes had been written, and
\* returned a different block.
C8_Witness ==
    /\ last.op = "grow"
    /\ last.res = "Ok"
    /\ last.old.size > 0
    /\ \A i \in 1..last.old.size : last.oldBytes[i] # Uninit
    /\ last.ptr # last.old.ptr
    /\ last.layout.size > last.old.size

\* C9: when the fallback allocate inside grow, grow_zeroed or shrink cannot
\* be satisfied, the call returns the error value without aborting, makes
\* neither the copy nor the deallocate, and leaves the Slab counter and the
\* old block (its bytes, and its being allocated) unchanged.
C9_FailedFallbackReturnsErr ==
    (/\ last.op \in {"grow", "grow_zeroed", "shrink"}
     /\ ~Fits(last.preLen, last.memory, last.layout)) =>
        /\ last.res = "Err"
        /\ pc = "ready"
        /\ len = last.preLen
        /\ Bytes(mem, last.old.ptr, last.old.size) = last.oldBytes
        /\ \A k \in 1..Len(last.calls) :
            last.calls[k] \notin {"copy_nonoverlapping", "deallocate"}
        /\ \E i \in LiveBlocks : blocks[i].ptr = last.old.ptr

\* C14: Prefix::try_new_in on a segment shorter than the header, or whose
\* base address is not a multiple of 16, returns PrefixError and writes
\* nothing (no header field, no byte of the segment); on every other segment
\* it succeeds.
C14_TryNewInErrorsWithoutWrites ==
    (kind = "Prefix" /\ last.op = "new") =>
        IF segLen < HeaderSize \/ base % 16 # 0
        THEN /\ last.res = "Err"
             /\ pc = "failed"
             /\ hdrCap = Uninit
             /\ mem = << >>
        ELSE /\ last.res = "Ok"
             /\ pc = "ready"
             /\ hdrCap # Uninit
             /\ len = Slab_new

\* C14 witness: try_new_in was refused a segment long enough for the header
\* whose base is not a multiple of 16.
C14_Witness ==
    /\ kind = "Prefix"
    /\ last.op = "new"
    /\ last.res = "Err"
    /\ segLen >= HeaderSize
    /\ base % 16 # 0

C16_ExternalNewAndWholeSlot ==
    kind = "External" =>
        /\ pc = "failed" <=> base % 16 # 0
        /\ last.op = "new" =>
            /\ last.res = (IF base % 16 # 0 THEN "Err" ELSE "Ok")
            /\ last.res = "Ok" => len = Slab_new
        /\ last.res # "Err" \/ last.op # "new" =>
            /\ last.memory = [ptr |-> base, cap |-> segLen]
            /\ Memory = [ptr |-> base, cap |-> segLen]

\* C16 witness: an External over an accepted slot has served an allocation
\* that needs the whole slot.
C16_Witness ==
    /\ kind = "External"
    /\ last.op = "allocate"
    /\ last.res = "Ok"
    /\ last.ptr + last.size = base + segLen

OnlyReturnedBlockWritten ==
    \A a \in DOMAIN mem \cup DOMAIN last.preMem :
        a \notin Range(last.ptr, last.size) =>
            Read(mem, a) = Read(last.preMem, a)

\* C18: a successful default grow_zeroed from a block of size old to size
\* new >= old returns a block whose first old bytes are the old block's
\* content before the call and whose bytes in [old, new) are all zero; the
\* old block is deallocated after the copy and the zero-fill.
C18_GrowZeroedCopiesThenZeroes ==
    (last.op = "grow_zeroed" /\ last.res = "Ok") =>
        /\ last.size = last.layout.size
        /\ last.size >= last.old.size
        /\ Bytes(mem, last.ptr, last.old.size) = last.oldBytes
        /\ \A a \in Range(last.ptr + last.old.size,
                           last.size - last.old.size) : Read(mem, a) = 0
        /\ OnlyReturnedBlockWritten
        /\ last.calls = <<"grow_zeroed_in_place", "grow_in_place", "allocate",
                          "copy_nonoverlapping", "write_bytes", "deallocate">>
        /\ \A i \in LiveBlocks : blocks[i].ptr # last.old.ptr

\* C18 witness: a grow_zeroed succeeded on a block whose bytes had been
\* written, to a strictly larger size.
C18_Witness ==
    /\ last.op = "grow_zeroed"
    /\ last.res = "Ok"
    /\ last.old.size > 0
    /\ last.size > last.old.size
    /\ \A i \in 1..last.old.size : last.oldBytes[i] # Uninit

\* C19: a successful default shrink from a block of size old to size
\* new <= old allocates a fresh block of the new layout, copies exactly new
\* bytes and then deallocates the old block: the first new bytes of the
\* returned block are the first new bytes the old block held before the
\* call, and nothing outside the returned block is written.
C19_ShrinkCopiesNewSize ==
    (last.op = "shrink" /\ last.res = "Ok") =>
        LET a == Slab_allocate(build, last.preLen, last.preMem, last.memory,
                               last.layout)
        IN  /\ a.tag = "Ok"
            /\ last.ptr = a.ptr
            /\ last.size = last.layout.size
            /\ last.size <= last.old.size
            /\ len = a.len
            /\ Bytes(mem, last.ptr, last.size)
                    = SubSeq(last.oldBytes, 1, last.size)
            /\ OnlyReturnedBlockWritten
            /\ last.calls = <<"shrink_in_place", "allocate",
                              "copy_nonoverlapping", "deallocate">>
            /\ \A i \in LiveBlocks : blocks[i].ptr # last.old.ptr

\* C19 witness: a shrink succeeded on a block whose bytes had been written,
\* to a strictly smaller size.
C19_Witness ==
    /\ last.op = "shrink"
    /\ last.res = "Ok"
    /\ last.size < last.old.size
    /\ \A i \in 1..last.old.size : last.oldBytes[i] # Uninit

(***************************************************************************)
(* RelShortString: {repr: MaybeUninit<Repr>, cap, alloc}, Repr being       *)
(* {ptr: RelPtr<u8>, len}.  repr is kept as its raw bytes, which hold      *)
(* either the inline string or the little-endian ptr offset and len.       *)
(***************************************************************************)
\* size of Repr.ptr, a RelPtr<u8> holding one signed offset
PtrBytes == 8
\* size of Repr.len and of RelShortString.cap, a B::Usize
UsizeBytes == 8
\* size of the emplaced allocator field of a RelPrefix (one RelRef)
RelRefBytes == 8

\* RelShortString::INLINE_CAPACITY = size_of::<Repr<A, B>>()
INLINE_CAPACITY == PtrBytes + UsizeBytes

\* Byte i (from 1, least significant first) of n in two's complement.
LeByte(n, i) == (n \div (256 ^ (i - 1))) % 256

\* B::from_native_usize / the offset store: k little-endian bytes of n.
ToLe(n, k) ==
    [i \in 1..k |-> IF i <= 3 THEN LeByte(n, i)
                    ELSE IF n < 0 THEN 255 ELSE 0]

RECURSIVE FromLe(_)
\* B::to_native_usize: the unsigned value of little-endian bytes.
FromLe(bytes) ==
    IF Len(bytes) = 0 THEN 0
    ELSE bytes[1] + 256 * FromLe(Tail(bytes))

\* The signed value of little-endian bytes (two's complement).
FromLeSigned(bytes) ==
    IF bytes[Len(bytes)] >= 128
    THEN -(FromLe([i \in 1..Len(bytes) |-> 255 - bytes[i]]) + 1)
    ELSE FromLe(bytes)

\* A pointer field that stores the absolute address of its target.
RelPtr_emplace_absolute(fieldAddr, target) == target

\* RelPtr emplacement: the offset from the pointer field's own address to
\* the target.
RelPtr_emplace(fieldAddr, target) == target - fieldAddr

\* RelPtr::as_ptr_unchecked: the pointer field's own address plus its offset.
RelPtr_as_ptr_unchecked(fieldAddr, offset) == fieldAddr + offset

\* Layout of the slot: repr, cap, then the emplaced allocator (a RelPrefix
\* holds one RelRef; the branded deref adapter over a static External is
\* zero-sized).
StrLayout(k) ==
    [size |-> INLINE_CAPACITY + UsizeBytes
                + (IF k = "Prefix" THEN RelRefBytes ELSE 0),
     align |-> UsizeBytes]

\* What a slot can hold before anything is emplaced into it: a zeroed
\* buffer, or stale bytes of an earlier use.
SlotGarbage ==
    { [cap |-> 0, byte |-> 0],
      [cap |-> 3, byte |-> 170],
      [cap |-> 40, byte |-> 170] }

\* Source strings: every length up to MaxStrLen, lower-case letters.
StrSeeds == {0, 5}

SrcString(L, seed) == [i \in 1..L |-> 97 + ((seed + i) % 26)]

Sources == {SrcString(L, seed) : L \in 0..MaxStrLen, seed \in StrSeeds}

\* Segments of the string scenarios: 40 bytes hold the slot but no spilled
\* block, 96 bytes hold both.
StrBases == {32}

StrSegLens == {40, 96}

(***************************************************************************)
(* Accessors.                                                              *)
(***************************************************************************)
internal_cap(st) == st.cap

is_inline(st) == internal_cap(st) <= INLINE_CAPACITY

capacity(st) ==
    IF internal_cap(st) >= INLINE_CAPACITY THEN internal_cap(st)
    ELSE INLINE_CAPACITY

ReprPtr(st) == FromLeSigned(SubSeq(st.repr, 1, PtrBytes))

ReprLen(st) == FromLe(SubSeq(st.repr, PtrBytes + 1, PtrBytes + UsizeBytes))

RelShortString_len(st) ==
    IF is_inline(st) THEN internal_cap(st) ELSE ReprLen(st)

is_empty(st) == RelShortString_len(st) = 0

as_bytes(st, m) ==
    IF is_inline(st)
    THEN SubSeq(st.repr, 1, RelShortString_len(st))
    ELSE Bytes(m, RelPtr_as_ptr_unchecked(st.addr, ReprPtr(st)),
               RelShortString_len(st))

(***************************************************************************)
(* clear and the Clone emplacer, as functions of the slot.                 *)
(***************************************************************************)
WriteField(st, field) ==
    [st.writes EXCEPT ![field] = @ + 1]

\* A clear that resets the cap field to zero.
RelShortString_clear_reset_cap(st) ==
    [st EXCEPT !.cap = 0, !.writes = WriteField(st, "cap")]

RelShortString_clear(st) ==
    IF is_inline(st)
    THEN [st EXCEPT !.cap = INLINE_CAPACITY,
                    !.writes = WriteField(st, "cap")]
    ELSE [st EXCEPT !.repr = [i \in 1..INLINE_CAPACITY |->
                                IF i > PtrBytes THEN ToLe(0, UsizeBytes)[i - PtrBytes]
                                ELSE st.repr[i]],
                    !.writes = WriteField(st, "len")]

\* The bytes of s written at dst.
WriteSeq(m, dst, s) ==
    [a \in DOMAIN m \cup Range(dst, Len(s)) |->
        IF a \in Range(dst, Len(s)) THEN s[a - dst + 1] ELSE m[a]]

\* An off-by-one inline threshold.
FitsInline_strict(L) == L < INLINE_CAPACITY

\* The emplacer's dispatch: len <= INLINE_CAPACITY stores the bytes inline.
FitsInline(L) == L <= INLINE_CAPACITY

\* A request one byte larger than the string.
Layout_array_u8_plus_one(n) == [size |-> n + 1, align |-> 1]

\* Layout::array::<u8>(len): len bytes, alignment 1.
Layout_array_u8(n) == [size |-> n, align |-> 1]

\* An emplacer that reports the failed allocation instead: it writes len and
\* alloc and returns an error.
Allocate_unwrap_reported(st, a, layout) ==
    [tag |-> "Err", ptr |-> 0, size |-> 0, len |-> a.len, mem |-> a.mem,
     calls |-> a.calls, layout |-> layout,
     str |-> [st EXCEPT !.state = "emplaced",
                        !.alloc = "emplaced",
                        !.writes = [st.writes EXCEPT !.len = @ + 1,
                                                     !.alloc = @ + 1]]]

\* self.0.allocate(..).unwrap() when allocate did not return a block: the
\* unwrap panics there, with the slot as it was.
Allocate_unwrap_failed(st, a, layout) ==
    [tag |-> "Panic", ptr |-> 0, size |-> 0, len |-> a.len, mem |-> a.mem,
     calls |-> a.calls, layout |-> layout, str |-> st]

\* Clone(alloc, s).emplace_unsized_unchecked(out): the slot, the Slab
\* counter and the memory after the call, the allocator calls it made and
\* the block it allocated.
Clone_emplace_unsized_unchecked(b, st, slabLen, m, memory, s) ==
    LET L == Len(s)
    IN  IF FitsInline(L)
        THEN [tag |-> "Ok", ptr |-> 0, size |-> 0, len |-> slabLen, mem |-> m,
              calls |-> << >>, layout |-> NoLayout,
              str |-> [st EXCEPT
                        !.state = "emplaced",
                        !.cap = L,
                        !.repr = [i \in 1..INLINE_CAPACITY |->
                                    IF i <= L THEN s[i] ELSE st.repr[i]],
                        !.alloc = "emplaced",
                        !.writes = [st.writes EXCEPT !.cap = @ + 1,
                                                     !.inline = @ + 1,
                                                     !.alloc = @ + 1]]]
        ELSE
        LET layout == Layout_array_u8(L)
            a == Slab_allocate(b, slabLen, m, memory, layout)
        IN  IF a.tag # "Ok"
            THEN Allocate_unwrap_failed(st, a, layout)
            ELSE [tag |-> "Ok", ptr |-> a.ptr, size |-> a.size,
                  len |-> a.len, mem |-> WriteSeq(a.mem, a.ptr, s),
                  calls |-> a.calls, layout |-> layout,
                  str |-> [st EXCEPT
                            !.state = "emplaced",
                            !.repr = ToLe(RelPtr_emplace(st.addr, a.ptr), PtrBytes)
                                     \o ToLe(L, UsizeBytes),
                            !.alloc = "emplaced",
                            !.writes = [st.writes EXCEPT !.ptr = @ + 1,
                                                         !.len = @ + 1,
                                                         !.alloc = @ + 1]]]

(***************************************************************************)
(* The string scenario: build an allocator, obtain a slot from it, emplace *)
(* a string, clear it.                                                     *)
(***************************************************************************)
\* The caller allocates the slot from the region's allocator; the slot holds
\* whatever those bytes held before.
AllocSlot ==
    /\ pc = "ready"
    /\ str.state = "none"
    /\ \E g \in SlotGarbage :
        LET layout == StrLayout(kind)
            r == Slab_allocate(build, len, mem, Memory, layout)
        IN  /\ Finish("allocate", layout, NoBlock, FALSE, r, "lands")
            /\ str' = IF r.tag = "Ok"
                      THEN [NoStr EXCEPT
                              !.state = "slot",
                              !.addr = r.ptr,
                              !.repr = [i \in 1..INLINE_CAPACITY |-> g.byte],
                              !.cap = g.cap]
                      ELSE str
    /\ UNCHANGED <<source, extVars>>

Emplace ==
    /\ pc = "ready"
    /\ str.state = "slot"
    /\ \E s \in Sources :
        LET r == Clone_emplace_unsized_unchecked(build, str, len, mem, Memory, s)
        IN  \E outcome \in Outcomes({[ptr |-> r.ptr, size |-> r.size],
                                     [ptr |-> str.addr,
                                      size |-> IF r.tag = "Panic" THEN 0
                                               ELSE StrLayout(kind).size]}) :
            /\ source' = s
            /\ nops' = nops + 1
            /\ last' = [NoLast EXCEPT
                          !.op = "emplace",
                          !.res = IF outcome = "fault" THEN "Fault" ELSE r.tag,
                          !.ptr = r.ptr, !.size = r.size,
                          !.layout = r.layout,
                          !.preLen = len, !.calls = r.calls,
                          !.memory = Memory]
            /\ IF outcome = "fault"
               THEN pc' = "faulted" /\ UNCHANGED <<len, mem, blocks, str>>
               ELSE IF r.tag = "Panic"
               THEN pc' = "panicked" /\ UNCHANGED <<len, mem, blocks, str>>
               ELSE /\ pc' = pc
                    /\ len' = r.len
                    /\ mem' = r.mem
                    /\ str' = r.str
                    /\ blocks' = IF r.size > 0
                                 THEN Append(blocks,
                                        [ptr |-> r.ptr, size |-> r.size,
                                         align |-> 1, live |-> TRUE,
                                         via |-> << >>])
                                 ELSE blocks
    /\ UNCHANGED <<build, kind, base, segLen, hdrCap, extVars>>

Clear ==
    /\ pc = "ready"
    /\ nops <= MaxOps
    /\ str.state \in {"emplaced", "cleared"}
    /\ str' = [RelShortString_clear(str) EXCEPT !.state = "cleared"]
    /\ nops' = nops + 1
    /\ last' = [NoLast EXCEPT !.op = "clear", !.res = "Ok", !.preLen = len,
                              !.preMem = mem, !.preCap = capacity(str),
                              !.preInline = is_inline(str),
                              !.memory = Memory]
    /\ UNCHANGED <<build, pc, kind, base, segLen, hdrCap, len, mem, blocks,
                   source, extVars>>

\* Distances by which the segment is moved.
Deltas == {-16, 64}

\* The bytes of the segment [segBase, segBase + n) copied verbatim to
\* segBase + d.
CopySegment(m, segBase, n, d) ==
    [a \in {x + d : x \in DOMAIN m \cap Range(segBase, n)} |-> m[a - d]]

\* The whole segment, holding the string and its block, is copied verbatim
\* to another base address; the copy is what is read from then on.  last
\* keeps what as_bytes() and len() returned on the original.
Relocate ==
    /\ pc = "ready"
    /\ nops <= MaxOps
    /\ str.state \in {"emplaced", "cleared"}
    /\ ~OutOfSegment(str.addr, StrLayout(kind).size)
    /\ \A i \in 1..Len(blocks) : ~OutOfSegment(blocks[i].ptr, blocks[i].size)
    /\ \E d \in Deltas :
        /\ base' = base + d
        /\ mem' = CopySegment(mem, base, segLen, d)
        /\ str' = [str EXCEPT !.addr = @ + d]
        /\ blocks' = [i \in 1..Len(blocks) |->
                        [blocks[i] EXCEPT !.ptr = @ + d]]
        /\ last' = [NoLast EXCEPT !.op = "relocate", !.res = "Ok",
                                  !.ptr = str.addr,
                                  !.size = RelShortString_len(str),
                                  !.oldBytes = as_bytes(str, mem),
                                  !.preLen = len, !.memory = Memory]
    /\ nops' = nops + 1
    /\ UNCHANGED <<build, pc, kind, segLen, hdrCap, len, source, extVars>>

StrExternal_new == External_new_over(StrBases, StrSegLens)

StrPrefix_try_new_in == Prefix_try_new_in_over(StrBases, StrSegLens)

NextStr ==
    \/ StrExternal_new
    \/ StrPrefix_try_new_in
    \/ AllocSlot
    \/ Emplace
    \/ Clear
    \/ Relocate

SpecStr == Init /\ [][NextStr]_vars

(***************************************************************************)
(* Properties of RelShortString.                                           *)
(***************************************************************************)
\* C2: after Clone(alloc, s) is emplaced, as_bytes() is exactly the bytes of
\* s and len() is the length of s, for inline and for spilled strings.
C2_ReadBackEqualsSource ==
    str.state = "emplaced" =>
        /\ RelShortString_len(str) = Len(source)
        /\ as_bytes(str, mem) = source

\* C3: after construction from a source longer than INLINE_CAPACITY the cap
\* field has been written and holds the backing capacity, which is greater
\* than INLINE_CAPACITY, so is_inline() is false and capacity() >
\* INLINE_CAPACITY on every later access.
C3_SpilledCapIsBackingCapacity ==
    (str.state \in {"emplaced", "cleared"} /\ Len(source) > INLINE_CAPACITY) =>
        /\ str.writes.cap >= 1
        /\ internal_cap(str) = Len(source)
        /\ ~is_inline(str)
        /\ capacity(str) > INLINE_CAPACITY

\* C4: after clear(), is_empty() is true (len() = 0), for inline and for
\* spilled strings of any length.
C4_ClearThenIsEmpty ==
    str.state = "cleared" => is_empty(str)

\* C10: constructing a RelShortString from a source of length at most
\* INLINE_CAPACITY makes no allocator call, and leaves the Slab counter and
\* the set of allocated blocks as they were.
C10_InlineMakesNoAllocatorCall ==
    (last.op = "emplace" /\ Len(source) <= INLINE_CAPACITY) =>
        /\ last.calls = << >>
        /\ last.res \in {"Ok", "Fault"}
        /\ len = last.preLen
        /\ \A i \in 1..Len(blocks) : blocks[i].ptr = str.addr

\* C10 witness: a source of exactly INLINE_CAPACITY bytes was emplaced into
\* a slot taken from a Slab whose counter had already advanced.
C10_Witness ==
    /\ last.op = "emplace"
    /\ last.res = "Ok"
    /\ str.state = "emplaced"
    /\ Len(source) = INLINE_CAPACITY
    /\ last.preLen > 0

\* C11: constructing a RelShortString from a source of length L greater
\* than INLINE_CAPACITY makes exactly one allocator call, an allocate of
\* size L and alignment 1, and a construction that completes has advanced
\* the Slab counter by exactly L.
C11_SpilledMakesOneAllocate ==
    (last.op = "emplace" /\ Len(source) > INLINE_CAPACITY) =>
        /\ last.calls = <<"allocate">>
        /\ last.layout = [size |-> Len(source), align |-> 1]
        /\ last.res = "Ok" =>
            /\ len = last.preLen + Len(source)
            /\ last.size = Len(source)
            /\ last.ptr = last.memory.ptr + last.preLen

\* C11 witness: a source longer than INLINE_CAPACITY was emplaced and its
\* block was taken from a Slab whose counter had already advanced.
C11_Witness ==
    /\ last.op = "emplace"
    /\ last.res = "Ok"
    /\ str.state = "emplaced"
    /\ Len(source) > INLINE_CAPACITY
    /\ last.preLen > 0
    /\ Len(blocks) = 2

\* C12: when the emplacer returns, on the inline and on the spilled path,
\* every field of the destination slot has been written exactly once: cap,
\* alloc, and repr (the copied source bytes when inline, the {ptr, len}
\* record when spilled).
C12_EveryFieldInitializedOnce ==
    str.state = "emplaced" =>
        /\ str.writes.cap = 1
        /\ str.writes.alloc = 1
        /\ IF Len(source) <= INLINE_CAPACITY
           THEN /\ str.writes.inline = 1
                /\ str.writes.ptr = 0
                /\ str.writes.len = 0
                /\ SubSeq(str.repr, 1, Len(source)) = source
           ELSE /\ str.writes.inline = 0
                /\ str.writes.ptr = 1
                /\ str.writes.len = 1

\* C13: a spilled RelShortString stores only the signed offset from its
\* pointer field's own address to its block, and reads compute the block
\* address as own address + offset: after the whole segment is copied
\* verbatim to another base address, as_bytes() and len() on the copy return
\* what they returned on the original.
C13_RelocationInvariance ==
    last.op = "relocate" =>
        /\ RelShortString_len(str) = last.size
        /\ as_bytes(str, mem) = last.oldBytes
        /\ Len(source) > INLINE_CAPACITY =>
            /\ ReprPtr(str) = blocks[Len(blocks)].ptr - str.addr
            /\ RelPtr_as_ptr_unchecked(str.addr, ReprPtr(str))
                    = blocks[Len(blocks)].ptr

\* C13 witness: a string read through its pointer, holding the bytes of a
\* source longer than INLINE_CAPACITY, was moved with its segment.
C13_Witness ==
    /\ last.op = "relocate"
    /\ str.addr # last.ptr
    /\ ~is_inline(str)
    /\ Len(source) > INLINE_CAPACITY
    /\ as_bytes(str, mem) = source

\* C20: clear() does not change the value capacity() returns, does not
\* change the representation (inline or spilled) the string is in, and makes
\* no allocator call: the Slab counter, the memory and the blocks are as
\* before.
C20_ClearKeepsCapacityAndRepresentation ==
    last.op = "clear" =>
        /\ capacity(str) = last.preCap
        /\ is_inline(str) = last.preInline
        /\ last.calls = << >>
        /\ len = last.preLen
        /\ mem = last.preMem

\* C20 witness: a string read through its pointer was cleared.
C20_Witness ==
    /\ last.op = "clear"
    /\ ~last.preInline
    /\ Len(source) > INLINE_CAPACITY

(***************************************************************************)
(* Calls by name: the operations of the Allocator and RawAllocator traits, *)
(* each of which hands self.memory() and its arguments to the same-named   *)
(* operation of the control.                                               *)
(***************************************************************************)
Ops ==
    {"allocate", "deallocate", "allocate_zeroed", "grow", "grow_zeroed",
     "grow_in_place", "grow_zeroed_in_place", "shrink", "shrink_in_place"}

\* The operation op of a Slab control.
Control_call(op, b, slabLen, m, memory, ptr, old_layout, new_layout) ==
    CASE op = "allocate" ->
            Slab_allocate(b, slabLen, m, memory, new_layout)
      [] op = "deallocate" ->
            Ok(0, 0, Slab_deallocate(slabLen, memory, ptr, old_layout), m,
               <<"deallocate">>)
      [] op = "allocate_zeroed" ->
            Control_allocate_zeroed(b, slabLen, m, memory, new_layout)
      [] op = "grow" ->
            Control_grow(b, slabLen, m, memory, ptr, old_layout, new_layout)
      [] op = "grow_zeroed" ->
            Control_grow_zeroed(b, slabLen, m, memory, ptr, old_layout,
                                new_layout)
      [] op = "grow_in_place" ->
            Control_grow_in_place(b, slabLen, m, memory, ptr, old_layout,
                                  new_layout)
      [] op = "grow_zeroed_in_place" ->
            Control_grow_zeroed_in_place(b, slabLen, m, memory, ptr,
                                         old_layout, new_layout)
      [] op = "shrink" ->
            Control_shrink(b, slabLen, m, memory, ptr, old_layout, new_layout)
      [] op = "shrink_in_place" ->
            Control_shrink_in_place(b, slabLen, m, memory, ptr, old_layout,
                                    new_layout)

\* The arguments a caller may pass to op in the current state: a layout for
\* the allocating calls, a block it holds and a layout that respects the
\* call's size precondition for the others.
CallArgs(op) ==
    IF op \in {"allocate", "allocate_zeroed"}
    THEN {[old |-> NoBlock, layout |-> l] : l \in Layouts}
    ELSE IF op = "deallocate"
    THEN {[old |-> BlockOf(i), layout |-> LayoutOf(blocks[i])] :
            i \in LiveBlocks}
    ELSE IF op \in {"grow", "grow_zeroed", "grow_in_place",
                    "grow_zeroed_in_place"}
    THEN {a \in [old : {BlockOf(i) : i \in LiveBlocks}, layout : Layouts] :
            a.layout.size >= a.old.size}
    ELSE {a \in [old : {BlockOf(i) : i \in LiveBlocks}, layout : Layouts] :
            a.layout.size <= a.old.size}

\* The byte ranges a call that returned r reads or writes.
Touched(op, r, old, layout) ==
    IF r.tag # "Ok" \/ op \in {"allocate", "deallocate"} THEN {}
    ELSE IF op = "allocate_zeroed" THEN {[ptr |-> r.ptr, size |-> r.size]}
    ELSE {[ptr |-> r.ptr, size |-> r.size],
          [ptr |-> old.ptr,
           size |-> IF layout.size < old.size THEN layout.size ELSE old.size]}

\* Whether a successful op gives up the block handed in.
Releases(op) == op \in {"deallocate", "grow", "grow_zeroed", "shrink"}

\* One call of op, through the handles via, on the control whose counter is
\* slabLen, with the memory range memory.
Invoke(op, target, via, memory, slabLen) ==
    \E a \in CallArgs(op) :
        LET r == Control_call(target, build, slabLen, mem, memory, a.old.ptr,
                              LayoutOf(a.old), a.layout)
        IN  \E outcome \in Outcomes(Touched(target, r, a.old, a.layout)) :
                FinishVia(op, via, memory, slabLen, a.layout, a.old,
                          Releases(target), r, outcome)

(***************************************************************************)
(* RelPrefix: the Prefix allocator emplaced in its own region.  It holds   *)
(* one RelRef to the header and reaches control and memory through it.     *)
(***************************************************************************)
\* RelRef emplacement: the offset from the reference's own address to the
\* target.
RelRef_emplace(fieldAddr, target) == target - fieldAddr

\* A reference that resolves to its own address, as if the RelPrefix held
\* the header itself.
RelRef_deref_own(fieldAddr, offset) == fieldAddr

\* RelRef::deref: the reference's own address plus its offset.
RelRef_deref(fieldAddr, offset) == fieldAddr + offset

\* The PrefixHeader {cap, control} read at an address: the header written by
\* try_new_in at the base of the segment; any other address holds no
\* header and reads as zero bytes.
PrefixHeaderAt(addr) ==
    IF addr = base THEN [cap |-> hdrCap, control |-> len]
    ELSE [cap |-> 0, control |-> 0]

\* Layout of RelPrefix: one RelRef.
RelPrefixLayout == [size |-> RelRefBytes, align |-> RelRefBytes]

\* Emplace<RelPrefix> for Prefix, into a slot the caller takes from the
\* Prefix allocator: self.header.emplace(header).
Prefix_emplace ==
    /\ Ready
    /\ kind = "Prefix"
    /\ rel.state = "none"
    /\ LET r == Slab_allocate(build, len, mem, Memory, RelPrefixLayout)
       IN  \E outcome \in Outcomes({[ptr |-> r.ptr, size |-> r.size]}) :
            /\ Finish("allocate", RelPrefixLayout, NoBlock, FALSE, r, outcome)
            /\ rel' = IF r.tag = "Ok" /\ outcome = "lands"
                      THEN [state |-> "emplaced", addr |-> r.ptr,
                            header |-> ToLe(RelRef_emplace(r.ptr, base),
                                            RelRefBytes)]
                      ELSE rel
    /\ UNCHANGED <<strVars, thr, tok, cell>>

\* A RawAllocator call on the emplaced RelPrefix: RelRef::deref(header),
\* then the same-named operation of header.control with
\* PrefixHeader::memory(header).
RelPrefix_raw ==
    /\ Ready
    /\ kind = "Prefix"
    /\ rel.state = "emplaced"
    /\ UNCHANGED <<strVars, extVars>>
    /\ LET h   == RelRef_deref(rel.addr, FromLeSigned(rel.header))
           hdr == PrefixHeaderAt(h)
       IN  \E op \in Ops :
            Invoke(op, op, <<"RelPrefix">>, PrefixHeader_memory(h, hdr.cap),
                   hdr.control)

NextRel ==
    \/ Prefix_try_new_in
    \/ Prefix_emplace
    \/ Allocate
    \/ AllocateZeroed
    \/ Deallocate
    \/ Grow
    \/ GrowZeroed
    \/ Shrink
    \/ Fill
    \/ RelPrefix_raw

SpecRel == Init /\ [][NextRel]_vars

Brand_forward(op) ==
    CASE op = "allocate" -> "allocate"
      [] op = "deallocate" -> "deallocate"
      [] op = "allocate_zeroed" -> "allocate_zeroed"
      [] op = "grow" -> "grow"
      [] op = "grow_zeroed" -> "grow_zeroed"
      [] op = "grow_in_place" -> "grow_in_place"
      [] op = "grow_zeroed_in_place" -> "grow_zeroed_in_place"
      [] op = "shrink" -> "shrink"
      [] op = "shrink_in_place" -> "shrink_in_place"

\* A DerefAdapter whose grow_zeroed calls grow and whose shrink_in_place
\* calls shrink.
DerefAdapter_forward_crossed(op) ==
    CASE op = "grow_zeroed" -> "grow"
      [] op = "shrink_in_place" -> "shrink"
      [] OTHER -> op

\* Allocator for DerefAdapter<P>: the method of self.deref() each method
\* calls.
DerefAdapter_forward(op) ==
    CASE op = "allocate" -> "allocate"
      [] op = "deallocate" -> "deallocate"
      [] op = "allocate_zeroed" -> "allocate_zeroed"
      [] op = "grow" -> "grow"
      [] op = "grow_zeroed" -> "grow_zeroed"
      [] op = "grow_in_place" -> "grow_in_place"
      [] op = "grow_zeroed_in_place" -> "grow_zeroed_in_place"
      [] op = "shrink" -> "shrink"
      [] op = "shrink_in_place" -> "shrink_in_place"

\* The wrappers a call goes through, outermost first: Brand<A>,
\* DerefAdapter<&A>, and Brand<DerefAdapter<&A>> (Brand::new_deref).
Adapters == {<<"Brand">>, <<"DerefAdapter">>, <<"Brand", "DerefAdapter">>}

RECURSIVE Forward(_, _)
\* The method of the wrapped allocator that a call of op through the
\* wrappers via ends in.
Forward(via, op) ==
    IF via = << >> THEN op
    ELSE Forward(Tail(via),
                 IF Head(via) = "Brand" THEN Brand_forward(op)
                 ELSE DerefAdapter_forward(op))

\* A call of one Allocator method through a wrapper.
Adapter_call ==
    /\ Ready
    /\ UNCHANGED <<strVars, extVars>>
    /\ \E via \in Adapters, op \in Ops :
        Invoke(op, Forward(via, op), via, Memory, len)

NextAdapt ==
    \/ External_new
    \/ Adapter_call
    \/ Fill

SpecAdapt == Init /\ [][NextAdapt]_vars

\* C22: Brand and DerefAdapter are pure forwarders: a call of any of the
\* nine Allocator methods through them runs the same-named method of the
\* wrapped allocator exactly once with the same arguments, returns its
\* result unchanged and has no other effect.
C22_AdaptersForward ==
    last.via \in Adapters =>
        LET o == Control_call(last.op, build, last.preLen, last.preMem,
                              Memory, last.old.ptr, LayoutOf(last.old),
                              last.layout)
        IN  /\ Forward(last.via, last.op) = last.op
            /\ last.memory = Memory
            /\ last.calls = o.calls
            /\ last.res \in {o.tag, "Fault"}
            /\ last.res = "Panic" => len = last.preLen /\ mem = last.preMem
            /\ last.res \in {"Ok", "Err"} =>
                /\ last.ptr = o.ptr
                /\ last.size = o.size
                /\ len = o.len
                /\ mem = o.mem

\* C22 witness: a grow_zeroed through Brand<DerefAdapter> succeeded on a
\* block whose bytes had been written.
C22_Witness ==
    /\ last.via = <<"Brand", "DerefAdapter">>
    /\ last.op = "grow_zeroed"
    /\ last.res = "Ok"
    /\ last.size > last.old.size
    /\ \A i \in 1..last.old.size : last.oldBytes[i] # Uninit

(***************************************************************************)
(* Requests near the largest size a Layout can have.                       *)
(***************************************************************************)
\* isize::MAX, the largest size of a Layout of alignment 1.
ISIZE_MAX == 2 ^ (WordBits - 1) - 1

\* The number of calls a run with large requests makes.
MaxWideOps == 4

LargeLayouts ==
    { [size |-> ISIZE_MAX, align |-> 1],
      [size |-> ISIZE_MAX - 26, align |-> 1] }

\* allocate with a request from LargeLayouts.
Allocate_large ==
    /\ pc = "ready"
    /\ nops < MaxWideOps
    /\ UNCHANGED <<strVars, extVars>>
    /\ \E layout \in LargeLayouts :
        LET r == Slab_allocate(build, len, mem, Memory, layout)
        IN  Finish("allocate", layout, NoBlock, FALSE, r, "lands")

\* grow of a live block to a request from LargeLayouts.
Grow_large ==
    /\ pc = "ready"
    /\ nops < MaxWideOps
    /\ UNCHANGED <<strVars, extVars>>
    /\ \E i \in LiveBlocks, layout \in LargeLayouts :
        /\ layout.size >= blocks[i].size
        /\ LET r == Control_grow(build, len, mem, Memory, blocks[i].ptr,
                                 LayoutOf(blocks[i]), layout)
           IN  \E outcome \in Outcomes({[ptr |-> r.ptr, size |-> r.size],
                                        [ptr |-> blocks[i].ptr,
                                         size |-> IF r.tag = "Ok" THEN blocks[i].size ELSE 0]}) :
                Finish("grow", layout, BlockOf(i), TRUE, r, outcome)

NextWide ==
    \/ External_new
    \/ Allocate
    \/ Allocate_large
    \/ Grow_large
    \/ Deallocate

SpecWide == Init /\ [][NextWide]_vars

\* The Slab operations that take or give up a block.
SlabOps ==
    {"allocate", "allocate_zeroed", "deallocate", "grow", "grow_zeroed",
     "shrink"}

\* C23: over any sequence of allocate, allocate_zeroed, deallocate, grow,
\* grow_zeroed and shrink calls the Slab counter never decreases, and it
\* increases only on a call that made a successful allocation.
C23_LenNeverDecreases ==
    (last.op \in SlabOps /\ last.res \in {"Ok", "Err"}) =>
        /\ len >= last.preLen
        /\ len > last.preLen =>
            (last.res = "Ok" /\ last.op # "deallocate")

\* C28: Slab has no in-place grow or shrink, so every successful grow,
\* grow_zeroed or shrink returns a freshly bumped block: it starts at or
\* after the counter before the call, is not the old block, and the call
\* advances the counter by at least the new size.
C28_GrowShrinkBumpFresh ==
    (last.op \in {"grow", "grow_zeroed", "shrink"} /\ last.res = "Ok") =>
        /\ last.ptr - last.memory.ptr >= last.preLen
        /\ last.ptr # last.old.ptr
        /\ len >= last.preLen + last.layout.size

\* Runs of allocate and deallocate only.
NextBump ==
    \/ External_new
    \/ Prefix_try_new_in
    \/ Allocate
    \/ Deallocate

SpecBump == Init /\ [][NextBump]_vars

\* C29: in every state reached from Slab::new by allocate and deallocate
\* calls the counter satisfies 0 <= len <= cap, cap being the capacity of
\* the segment given to the Slab, and a failed allocate leaves the counter
\* unchanged.
C29_LenWithinCap ==
    (kind # "None" /\ pc \in {"ready", "panicked"}) =>
        /\ 0 <= len
        /\ len <= Memory.cap
        /\ (last.op = "allocate" /\ last.res # "Ok") => len = last.preLen

\* C30: a block returned by a successful Slab allocate is layout.size()
\* bytes long and starts at offset roundup(previous len, align) from the
\* segment base, at an address that is a multiple of align; after the call
\* len = start + size.
C30_AllocateBlockShape ==
    (last.op = "allocate" /\ last.res = "Ok") =>
        /\ last.size = last.layout.size
        /\ last.ptr = last.memory.ptr + RoundUp(last.preLen, last.layout.align)
        /\ last.ptr % last.layout.align = 0
        /\ len = (last.ptr - last.memory.ptr) + last.size

(***************************************************************************)
(* Slab::allocate run by callers that share one Slab.  len is a Cell: the  *)
(* call reads it (self.len.get()) and later writes it (self.len.set(..))   *)
(* as two separate steps, with nothing that keeps another caller out in    *)
(* between.                                                                *)
(***************************************************************************)
\* The number of allocate calls the callers make between them.
MaxRaceCalls == 5

RaceBases == {32}

RaceSegLens == {8}

RaceLayouts ==
    {[size |-> 1, align |-> 1], [size |-> 4, align |-> 32]} \cup LargeLayouts

\* The calls that have been entered and not completed.
InFlight == {t \in Threads : thr.at[t].pc = "read"}

\* The entry of a completed call in the log.
Logged(r, read, raced) ==
    [res |-> r.tag, ptr |-> r.ptr, size |-> r.size, read |-> read,
     raced |-> raced]

\* Slab::allocate up to and including self.len.get(): the base alignment
\* test, which returns AllocError at once, then the read of len.
Slab_allocate_get(t) ==
    /\ pc = "ready"
    /\ kind = "External"
    /\ thr.at[t].pc = "idle"
    /\ Len(thr.log) + Cardinality(InFlight) < MaxRaceCalls
    /\ \E layout \in RaceLayouts :
        IF MaskLow(Memory.ptr, layout.align) # 0
        THEN thr' = [thr EXCEPT
                !.log = Append(@, Logged(Err(len, mem, <<"allocate">>), len,
                                         FALSE))]
        ELSE thr' = [thr EXCEPT
                !.at = [u \in Threads |->
                          IF u = t
                          THEN [pc |-> "read", layout |-> layout, read |-> len,
                                raced |-> InFlight # {}]
                          ELSE IF u \in InFlight
                          THEN [thr.at[u] EXCEPT !.raced = TRUE]
                          ELSE thr.at[u]]]
    /\ UNCHANGED <<allocVars, strVars, rel, tok, cell>>

\* The rest of Slab::allocate: start and available from the value read,
\* then either AllocError or self.len.set(start + size) and the block.
Slab_allocate_set(t) ==
    /\ pc = "ready"
    /\ thr.at[t].pc = "read"
    /\ LET r == Slab_allocate(build, thr.at[t].read, mem, Memory,
                              thr.at[t].layout)
       IN  /\ thr' = [thr EXCEPT
                    !.at[t] = NoThreads.at[t],
                    !.log = Append(@, Logged(r, thr.at[t].read,
                                             thr.at[t].raced))]
           /\ pc' = IF r.tag = "Panic" THEN "panicked" ELSE pc
           /\ len' = IF r.tag = "Ok" THEN r.len ELSE len
    /\ UNCHANGED <<build, kind, base, segLen, hdrCap, mem, blocks, last, nops,
                   strVars, rel, tok, cell>>

NextRace ==
    \/ External_new_over(RaceBases, RaceSegLens)
    \/ \E t \in Threads : Slab_allocate_get(t)
    \/ \E t \in Threads : Slab_allocate_set(t)

SpecRace == Init /\ [][NextRace]_vars

\* The calls of the log that returned a block.
Served == {i \in 1..Len(thr.log) : thr.log[i].res = "Ok"}

\* No call was entered while another was inside allocate.
Serialized == \A i \in 1..Len(thr.log) : ~thr.log[i].raced

\* C24: Slab::allocate reads len and later writes it in two non-atomic
\* steps.  Callers that are not serialized can both read the same len and
\* be given overlapping blocks; when all calls are serialized the blocks
\* returned are always pairwise disjoint.
C24_SerializedCallsDisjoint ==
    Serialized =>
        \A i, j \in Served :
            i < j => Disjoint(thr.log[i], thr.log[j])

\* Two calls that were not serialized read the same len and were given
\* overlapping blocks.
C24_RaceOverlap ==
    \E i, j \in Served :
        /\ i < j
        /\ thr.log[i].raced
        /\ thr.log[j].raced
        /\ thr.log[i].read = thr.log[j].read
        /\ ~Disjoint(thr.log[i], thr.log[j])

\* C25: when the out-of-line allocation fails while a RelShortString longer
\* than INLINE_CAPACITY is constructed, the emplacer returns no error: it
\* panics at the failed allocation, before the pointer, the len or the alloc
\* field of the slot is written.
C25_FailedSpillPanicsBeforeWrites ==
    (/\ last.op = "emplace"
     /\ Len(source) > INLINE_CAPACITY
     /\ Slab_allocate(build, last.preLen, mem, last.memory,
                      Layout_array_u8(Len(source))).tag # "Ok") =>
        /\ last.res = "Panic"
        /\ pc = "panicked"
        /\ str.state = "slot"
        /\ str.alloc = Uninit
        /\ str.writes.ptr = 0
        /\ str.writes.len = 0
        /\ str.writes.alloc = 0
        /\ len = last.preLen

\* C25 witness: on a build without overflow checks a source longer than
\* INLINE_CAPACITY was emplaced into a slot of a segment with no room for
\* the spilled block, and allocate was called and returned AllocError.
C25_Witness ==
    /\ last.op = "emplace"
    /\ build = "release"
    /\ Len(source) > INLINE_CAPACITY
    /\ last.calls = <<"allocate">>
    /\ last.res = "Panic"
    /\ last.preLen > 0

(***************************************************************************)
(* Unique values: runtime tokens, split_unique! and leased statics.        *)
(***************************************************************************)
\* T::try_acquire(): an error while the token type is held, otherwise the
\* token, and the type is held from then on.
Token_try_acquire(T) ==
    /\ pc # "panicked"
    /\ tok' = [tok EXCEPT
            ![T] = [@ EXCEPT
                !.held = TRUE,
                !.live = @ \/ ~tok[T].held,
                !.tried = [res |-> IF tok[T].held THEN "Err" ELSE "Ok",
                           live |-> tok[T].live,
                           forgotten |-> tok[T].forgotten,
                           outs |-> tok[T].outs]]]
    /\ UNCHANGED <<allocVars, strVars, rel, thr, cell>>

\* T::acquire(): the token; a panic while the token type is held.
Token_acquire(T) ==
    /\ pc # "panicked"
    /\ IF tok[T].held
       THEN pc' = "panicked" /\ tok' = tok
       ELSE pc' = pc /\ tok' = [tok EXCEPT ![T].held = TRUE, ![T].live = TRUE]
    /\ UNCHANGED <<build, kind, base, segLen, hdrCap, len, mem, blocks, last,
                   nops, strVars, rel, thr, cell>>

\* The token value is dropped: the token type is released.
Token_drop(T) ==
    /\ pc # "panicked"
    /\ tok[T].live
    /\ T = "Quarter" => cell.state = "none"
    /\ tok' = [tok EXCEPT ![T].held = FALSE, ![T].live = FALSE]
    /\ UNCHANGED <<allocVars, strVars, rel, thr, cell>>

\* A split function that drops the value it is given.
split_unique_drop(t) ==
    [t EXCEPT !.held = FALSE, !.live = FALSE, !.forgotten = TRUE, !.outs = 3]

\* The function split_unique! defines: mem::forget(unique), so no drop of
\* the value runs, then the outputs (Bar, Baz, Bat in the test).
split_unique_forget(t) ==
    [t EXCEPT !.live = FALSE, !.forgotten = TRUE, !.outs = 3]

\* barify(token)
split_unique(T) ==
    /\ pc # "panicked"
    /\ tok[T].live
    /\ T = "Quarter" => cell.state = "none"
    /\ tok' = [tok EXCEPT ![T] = split_unique_forget(@)]
    /\ UNCHANGED <<allocVars, strVars, rel, thr, cell>>

\* The outputs of the split are dropped: they are PhantomData structs with
\* no Drop.
split_outputs_drop(T) ==
    /\ pc # "panicked"
    /\ tok[T].outs > 0
    /\ tok' = [tok EXCEPT ![T].outs = 0]
    /\ UNCHANGED <<allocVars, strVars, rel, thr, cell>>

\* The values stored in the static (Gumball sizes of the test).
Sizes == {100, 6, 4}

\* A slot function that gives every handle a place of its own.
Static_slot_per_handle(h) == h

\* Static::slot as lease_static! implements it: &mut VALUE, whatever the
\* ghost it is given.
Static_slot(h) == "VALUE"

\* Static::value as lease_static! implements it: VALUE.assume_init_ref().
Static_value(statics, h) == statics["VALUE"]

\* StaticVal::new(&mut quarter, v): slot.write(v).
StaticVal_new ==
    /\ pc # "panicked"
    /\ tok["Quarter"].live
    /\ cell.state = "none"
    /\ \E v \in Sizes :
        LET slot == Static_slot("StaticVal")
        IN  cell' = [NoCell EXCEPT
                        !.state = "leased",
                        !.statics = [cell.statics EXCEPT ![slot] = v],
                        !.init = v,
                        !.expect = v,
                        !.slots = {slot}]
    /\ UNCHANGED <<allocVars, strVars, rel, thr, tok>>

\* *handle = x through DerefMut of StaticVal or of a StaticMut borrowed from
\* it: slot.assume_init_mut(), then the store.
StaticVal_deref_mut ==
    /\ pc # "panicked"
    /\ cell.state = "leased"
    /\ \E h \in {"StaticVal", "StaticMut"}, x \in Sizes :
        LET slot == Static_slot(h)
        IN  cell' = [cell EXCEPT
                        !.statics = [@ EXCEPT ![slot] = x],
                        !.expect = x,
                        !.slots = @ \cup {slot},
                        !.muts = IF @ < 2 THEN @ + 1 ELSE @]
    /\ UNCHANGED <<allocVars, strVars, rel, thr, tok>>

\* A read through Deref of StaticVal, StaticMut or StaticRef (as_ref()).
StaticVal_deref ==
    /\ pc # "panicked"
    /\ cell.state = "leased"
    /\ \E h \in Handles :
        cell' = [cell EXCEPT
                    !.read = Static_value(cell.statics, h),
                    !.want = cell.expect,
                    !.by = h]
    /\ UNCHANGED <<allocVars, strVars, rel, thr, tok>>

\* Drop of the StaticVal: slot.assume_init_drop(); the static is
\* uninitialized again.
StaticVal_drop ==
    /\ pc # "panicked"
    /\ cell.state = "leased"
    /\ cell' = NoCell
    /\ UNCHANGED <<allocVars, strVars, rel, thr, tok>>

NextUnique ==
    \/ \E T \in TokenTypes : Token_acquire(T)
    \/ \E T \in TokenTypes : Token_try_acquire(T)
    \/ \E T \in TokenTypes : Token_drop(T)
    \/ \E T \in TokenTypes : split_unique(T)
    \/ \E T \in TokenTypes : split_outputs_drop(T)
    \/ StaticVal_new
    \/ StaticVal_deref_mut
    \/ StaticVal_deref
    \/ StaticVal_drop

SpecUnique == Init /\ [][NextUnique]_vars

\* C26: from the acquisition of a runtime token until its release every
\* try_acquire returns Err; a token consumed by a split_unique function is
\* never released, so try_acquire keeps returning Err while the split
\* outputs exist and after they are dropped.
C26_TokenHeldUntilReleased ==
    \A T \in TokenTypes :
        /\ (tok[T].live \/ tok[T].forgotten) => tok[T].held
        /\ (tok[T].tried.live \/ tok[T].tried.forgotten) =>
            tok[T].tried.res = "Err"

\* C26 witness: try_acquire was called on Foo after its token had been split
\* and the outputs of the split had been dropped.
C26_Witness ==
    /\ tok["Foo"].forgotten
    /\ tok["Foo"].tried.forgotten
    /\ tok["Foo"].tried.outs = 0
    /\ tok["Foo"].tried.res = "Err"

\* C27: while a StaticVal made by new(token, v) exists, every read through
\* deref or as_ref returns the value most recently written through
\* deref_mut, or v if none was, and all mutable borrows refer to the one
\* static slot.
C27_ReadsSeeLastWrite ==
    cell.state = "leased" =>
        /\ cell.read = cell.want
        /\ Static_value(cell.statics, "StaticRef") = cell.expect
        /\ Cardinality(cell.slots) = 1

\* C27 witness: after two writes through mutable borrows a read through
\* as_ref returned the last value written, which is not the initial one.
C27_Witness ==
    /\ cell.state = "leased"
    /\ cell.muts = 2
    /\ cell.by = "StaticRef"
    /\ cell.read = cell.expect
    /\ cell.read # cell.init

====
